---------------------------- MODULE Spec2Model ----------------------------
(***************************************************************************)
(* Model of the geospatial filtering pipeline of the hazard calculator:    *)
(*   openquake/hazardlib/calc/filters.py  (IntegrationDistance, Piecewise, *)
(*                                         SourceFilter, context)          *)
(*   openquake/commonlib/calc.py          (gen_ruptures)                   *)
(*                                                                         *)
(*   openquake/commonlib/calc.py          (compute_hazard_maps,            *)
(*                                         _gmvs_to_haz_curve,             *)
(*                                         get_imts_periods, make_uhs,     *)
(*                                         check_overflow)                 *)
(*                                                                         *)
(* Magnitudes are integers, distances are integer km.  Python's None is    *)
(* the string "None" where the value is a set or a record-free slot, and   *)
(* the sentinel NoMag for a missing magnitude.                             *)
(***************************************************************************)
EXTENDS Integers, Sequences, FiniteSets, TLC

VARIABLES
    dic,          \* IntegrationDistance.dic      : TRT -> value
    magdist,      \* IntegrationDistance.magdist  : TRT -> list of pairs
    hasPiecewise, \* hasattr(self, 'piecewise')
    piecewise,    \* IntegrationDistance.piecewise: TRT -> Piecewise
    prev,         \* the distance query before the last one
    last,         \* the last distance query and what it returned
    srcAttr,      \* the sources: longitude, TRT and maximum magnitude
    srcIndices,   \* the .indices attribute of each source, when set
    flts,         \* the SourceFilter instances, in order of creation
    origin,       \* for each instance, the instance it was unpickled from
    ctorError,    \* the exception raised by SourceFilter.__init__, if any
    wire,         \* the last pickled state of a SourceFilter
    call,         \* the running SourceFilter.__call__ generator
    out,          \* the pairs yielded by the running generator
    lastOn,       \* per source, who filtered it last, what was yielded, and
                  \* the configuration under which its indices were set
    step,         \* the last iteration of a generator and what it did
    genSrc,       \* gen_ruptures: the sources, each a location and its ruptures
    gen,          \* gen_ruptures: the generator frame
    triples,      \* gen_ruptures: the triples yielded so far
    computed,     \* gen_ruptures: the distance computations performed so far
    shared,       \* concurrent tasks: the objects they share
    tasks,        \* concurrent tasks: kind, arguments, position, locals, result
    writes,       \* concurrent tasks: how often each cache key was written
    hmIn,         \* compute_hazard_maps: the arguments curves and poes
    hmRun,        \* compute_hazard_maps: loop position, hmap_val and result
    ecIn,         \* _gmvs_to_haz_curve: the arguments
    ecOut,        \* _gmvs_to_haz_curve: the returned poes, once returned
    uhIn,         \* make_uhs: the arguments and the interpreter
    uhOut,        \* make_uhs: the returned array, once returned
    ovIn,         \* check_overflow: the counts and the dictionary order
    ovOut         \* check_overflow: returned or the error raised

distVars == <<dic, magdist, hasPiecewise, piecewise, prev, last>>
filtVars == <<srcAttr, srcIndices, flts, origin, ctorError, wire, call, out,
              lastOn, step>>
genVars  == <<genSrc, gen, triples, computed>>
concVars == <<shared, tasks, writes>>
hmVars   == <<hmIn, hmRun>>
ecVars   == <<ecIn, ecOut>>
uhVars   == <<uhIn, uhOut>>
ovVars   == <<ovIn, ovOut>>
calcVars == <<hmVars, ecVars, uhVars, ovVars>>
vars == <<distVars, filtVars, genVars, concVars, calcVars>>

---------------------------------------------------------------------------
(* Bounds of the model *)

MinMag == 9
MaxMag == 12
MaxPoints == 2
NSites == 2
NSrc == 2
MaxInput == 2
MaxFilters == 2
NGenSrc == 2
MaxRup == 2
NTasks == 2
NCurves == 2
NPoes == 2
MaxGmvs == 2
NMapSites == 2
MaxExcess == 1

(* Program constants *)

MAX_DISTANCE == 2000
SyntheticMag == 11
NoMag == -1
LonMod == 360
KmPerDegree == 100
EPSILON == -30

Mags      == MinMag..MaxMag
QueryMags == (MinMag - 1)..(MaxMag + 1)
DistVals  == {100, 300, 2500}
ScalarKm  == {200}
TRTs      == {"A", "B"}

---------------------------------------------------------------------------
(* Values of the integration distance table *)

\* a configured scalar (any number), the float the constructor makes of it,
\* and a list of (magnitude, distance) pairs
Scalar(v) == [kind |-> "scalar", v |-> v, pts |-> <<>>]
Float(v)  == [kind |-> "float",  v |-> v, pts |-> <<>>]
List(p)   == [kind |-> "list",   v |-> 0, pts |-> p]

Pair(m, d) == [mag |-> m, dist |-> d]

StrictlyAscending(p) == \A i \in 1..(Len(p) - 1) : p[i].mag < p[i + 1].mag

\* lists of control points with strictly ascending magnitudes; interp1d
\* needs two points, so a list that gets no synthetic point has two of its own
ControlLists ==
    UNION { { p \in [1..n -> [mag : Mags, dist : DistVals]] :
                /\ StrictlyAscending(p)
                /\ n >= 2 \/ p[n].mag < SyntheticMag } : n \in 1..MaxPoints }

\* the tables a job can configure: a TRT and/or the 'default' key, each a
\* scalar or a list of control points; or nothing at all
Tables ==
    {<<>>}
    \cup { [t \in {"A"} |-> Scalar(s)] : s \in ScalarKm }
    \cup { [t \in {"A"} |-> List(l)] : l \in ControlLists }
    \cup { [t \in {"default"} |-> List(l)] : l \in ControlLists }
    \cup { [t \in {"A", "default"} |-> IF t = "A" THEN Scalar(s) ELSE List(l)] :
             l \in ControlLists, s \in ScalarKm }

---------------------------------------------------------------------------
(* Results: a returned value or a raised exception *)

Ok(v)    == [ok |-> TRUE,  val |-> v, err |-> "none"]
Raise(e) == [ok |-> FALSE, val |-> 0, err |-> e]

getdefault(dic_with_default, key) ==
    IF key \in DOMAIN dic_with_default THEN Ok(dic_with_default[key])
    ELSE IF "default" \in DOMAIN dic_with_default
         THEN Ok(dic_with_default["default"])
         ELSE Raise("KeyError")

---------------------------------------------------------------------------
(* Piecewise: interp1d(x, range(len(x)), bounds_error=False,               *)
(* fill_value=(0, len(x) - 1)) followed by ceil.  Indices are 0-based as   *)
(* in the source, the sequences x and y are 1-based.                       *)

\* rounding the interpolated index down instead of up
CeilDivFloor(num, den) == num \div den

\* numpy.ceil of num / den, den positive
CeilDiv(num, den) == (num + den - 1) \div den

\* numpy.searchsorted(x, v): the first 0-based position whose x is >= v
SearchSorted(x, v) ==
    IF \E j \in 1..Len(x) : x[j] >= v
    THEN (CHOOSE j \in 1..Len(x) :
             x[j] >= v /\ \A k \in 1..(j - 1) : x[k] < v) - 1
    ELSE Len(x)

\* the interpolant with fill_value=(0, 0)
PiecewiseIndexFillZero(x, v) ==
    IF v < x[1] \/ v > x[Len(x)] THEN 0
    ELSE LET s  == SearchSorted(x, v)
             hi == IF s < 1 THEN 1 ELSE s
             lo == hi - 1
         IN  lo + CeilDiv(v - x[lo + 1], x[hi + 1] - x[lo + 1])

\* ceil of the linear interpolant from x values to indices
PiecewiseIndex(x, v) ==
    IF v < x[1] THEN 0
    ELSE IF v > x[Len(x)] THEN Len(x) - 1
    ELSE LET s  == SearchSorted(x, v)
             hi == IF s < 1 THEN 1 ELSE s
             lo == hi - 1
         IN  lo + CeilDiv(v - x[lo + 1], x[hi + 1] - x[lo + 1])

Piecewise(x, y) == [x |-> x, y |-> y]

PiecewiseCall(md, v) == md.y[PiecewiseIndex(md.x, v) + 1]

---------------------------------------------------------------------------
(* IntegrationDistance *)

\* __init__: scalars become floats, lists are also recorded in magdist
IntegrationDistanceDic(d) ==
    [t \in DOMAIN d |-> IF d[t].kind = "list" THEN d[t] ELSE Float(d[t].v)]

IntegrationDistanceMagdist(d) ==
    [t \in {u \in DOMAIN d : d[u].kind = "list"} |-> d[t].pts]

Column(pts, f) == [i \in 1..Len(pts) |-> IF f = "mag" THEN pts[i].mag
                                                      ELSE pts[i].dist]

\* the control points the interpolant is built on: the synthetic point
\* (11, MAX_DISTANCE) is appended when the last magnitude is below 11
ExtendedMags(pts) ==
    IF pts[Len(pts)].mag < SyntheticMag
    THEN Append(Column(pts, "mag"), SyntheticMag)
    ELSE Column(pts, "mag")

\* the extension repeating the last distance instead of MAX_DISTANCE
ExtendedDistsRepeatLast(pts) ==
    IF pts[Len(pts)].mag < SyntheticMag
    THEN Append(Column(pts, "dist"), pts[Len(pts)].dist)
    ELSE Column(pts, "dist")

ExtendedDists(pts) ==
    IF pts[Len(pts)].mag < SyntheticMag
    THEN Append(Column(pts, "dist"), MAX_DISTANCE)
    ELSE Column(pts, "dist")

\* the except branch of __call__: build the interpolant for trt
BuildPiecewise(md, trt) ==
    LET pts == getdefault(md, trt).val
    IN  Piecewise(ExtendedMags(pts), ExtendedDists(pts))

\* __call__(trt, mag): the returned value (or exception) and the state of
\* the function cache it leaves behind
IntegrationDistanceCall(d, md, hasPw, pw, trt, mag) ==
    LET value == getdefault(d, trt)
        keep  == [hasPiecewise |-> hasPw, piecewise |-> pw]
    IN  IF ~value.ok
        THEN [out |-> Raise("KeyError")] @@ keep
        ELSE IF value.val.kind = "float"
        THEN [out |-> Ok(value.val.v)] @@ keep
        ELSE IF mag = NoMag
        THEN [out |-> Ok(MAX_DISTANCE)] @@ keep
        ELSE LET cache == IF hasPw THEN pw ELSE <<>>
             IN  IF trt \in DOMAIN cache
                 THEN [out |-> Ok(PiecewiseCall(cache[trt], mag)),
                       hasPiecewise |-> TRUE, piecewise |-> cache]
                 ELSE LET built == BuildPiecewise(md, trt)
                      IN  [out |-> Ok(PiecewiseCall(built, mag)),
                           hasPiecewise |-> TRUE,
                           piecewise |-> (trt :> built) @@ cache]

---------------------------------------------------------------------------
(* Distance queries on one IntegrationDistance *)

NoQuery == [trt |-> "None", mag |-> NoMag, out |-> Raise("none")]

DistInit ==
    \E d \in Tables :
        /\ dic = IntegrationDistanceDic(d)
        /\ magdist = IntegrationDistanceMagdist(d)
        /\ hasPiecewise = FALSE
        /\ piecewise = <<>>
        /\ prev = NoQuery
        /\ last = NoQuery

Answered(trt, mag, r) ==
    /\ hasPiecewise' = r.hasPiecewise
    /\ piecewise' = r.piecewise
    /\ prev' = last
    /\ last' = [trt |-> trt, mag |-> mag, out |-> r.out]
    /\ UNCHANGED <<dic, magdist>>
    /\ UNCHANGED <<filtVars, genVars, concVars, calcVars>>

Query(trt, mag) ==
    Answered(trt, mag, IntegrationDistanceCall(dic, magdist, hasPiecewise,
                                               piecewise, trt, mag))

DistNext == \E trt \in TRTs, mag \in QueryMags \cup {NoMag} : Query(trt, mag)

---------------------------------------------------------------------------
(* Site collections.  All sites and sources lie on the equator, so a       *)
(* bounding box is an interval of longitudes.                              *)

Sids == 0..(NSites - 1)

\* the longitudes of the complete collection: 0, 359, 2, 357, ...
SiteLon(sid) == IF sid % 2 = 0 THEN sid ELSE LonMod - sid

NoSitecol       == [kind |-> "None", sids |-> {}]
CompleteSitecol == [kind |-> "complete", sids |-> Sids]
SubSitecol(ids) == [kind |-> "filtered", sids |-> ids]

SitecolLen(sc) == Cardinality(sc.sids)

\* SiteCollection.filtered: the complete collection restricted to indices
filtered(sites, indices) ==
    IF indices = Sids THEN CompleteSitecol ELSE SubSitecol(indices)

fix_lon(lon) == lon % LonMod

InBox(lon, box) ==
    IF box[1] <= box[2] THEN box[1] <= lon /\ lon <= box[2]
    ELSE lon >= box[1] \/ lon <= box[2]

\* geo.utils.get_bounding_box of a point source enlarged by maxdist km
get_bounding_box(src, maxdist) ==
    <<src.lon - (maxdist \div KmPerDegree), src.lon + (maxdist \div KmPerDegree)>>

\* geo.utils.within: the ordinals of the indexed sites inside the box
within(bbox, index) == {sid \in index : InBox(SiteLon(sid), bbox)}

\* SiteCollection.within_bbox: the sites inside the box, or None
within_bbox(sites, bbox) ==
    LET ids == {sid \in sites.sids : InBox(SiteLon(sid), bbox)}
    IN  IF ids = {} THEN NoSitecol
        ELSE IF ids = sites.sids THEN sites
        ELSE SubSitecol(ids)

get_indices(sites) ==
    IF sites.kind = "complete" THEN 0..(SitecolLen(sites) - 1) ELSE sites.sids

---------------------------------------------------------------------------
(* SourceFilter *)

NewIntegrationDistance(d) ==
    [dic |-> IntegrationDistanceDic(d), magdist |-> IntegrationDistanceMagdist(d),
     hasPiecewise |-> FALSE, piecewise |-> <<>>]

\* IntegrationDistance.__getstate__ and the object rebuilt from it
IntegrationDistanceGetState(idist) ==
    [dic |-> idist.dic, magdist |-> idist.magdist,
     hasPiecewise |-> FALSE, piecewise |-> <<>>]

\* SourceFilter.__init__: the attributes of the new instance, or the error
SourceFilterInit(sitecol, integration_distance, prefilter) ==
    IF sitecol.kind # "None" /\ SitecolLen(sitecol) < NSites
    THEN Raise("ValueError")
    ELSE LET pref == IF DOMAIN integration_distance # {} /\ sitecol.kind # "None"
                     THEN prefilter ELSE "no"
             base == [integration_distance |->
                          NewIntegrationDistance(integration_distance),
                      sitecol |-> sitecol, prefilter |-> pref]
         IN  IF pref = "rtree"
             THEN Ok(base @@ [index |-> sitecol.sids])
             ELSE Ok(base)

\* pickling the whole instance dictionary, index included
SourceFilterWholeDict(f) == f

\* SourceFilter.__getstate__
SourceFilterGetState(f) ==
    [integration_distance |-> IntegrationDistanceGetState(f.integration_distance),
     sitecol |-> f.sitecol,
     prefilter |-> IF f.prefilter = "rtree" THEN "numpy" ELSE f.prefilter]

\* the bounding box of src enlarged by the distance r.out, longitudes fixed,
\* and the integration distance object after the query that returned r
AffectedBox(idist, src, r) ==
    [box |-> IF r.out.ok
             THEN Ok(<<fix_lon(get_bounding_box(src, r.out.val)[1]),
                       fix_lon(get_bounding_box(src, r.out.val)[2])>>)
             ELSE Raise(r.out.err),
     idist |-> [idist EXCEPT !.hasPiecewise = r.hasPiecewise,
                             !.piecewise = r.piecewise]]

\* get_affected_box: the box, and the integration distance after the query
get_affected_box(f, src) ==
    AffectedBox(f.integration_distance, src,
                IntegrationDistanceCall(f.integration_distance.dic,
                                        f.integration_distance.magdist,
                                        f.integration_distance.hasPiecewise,
                                        f.integration_distance.piecewise,
                                        src.trt, src.mag))

NoIndices    == [has |-> FALSE, idx |-> {}]
Indices(ids) == [has |-> TRUE, idx |-> ids]

\* what one iteration of the loop of __call__ does
Outcome(err, yielded, sites, indices, idist, boxed, cached) ==
    [err |-> err, yielded |-> yielded, sites |-> sites, indices |-> indices,
     idist |-> idist, boxed |-> boxed, cached |-> cached]

\* line 343 yielding the sites as they are
CachedBranchUnrestricted(f, sites, indices) ==
    IF sites.kind = "None"
    THEN Outcome("AttributeError", FALSE, NoSitecol, indices,
                 f.integration_distance, FALSE, TRUE)
    ELSE Outcome("none", TRUE, sites, indices, f.integration_distance,
                 FALSE, TRUE)

\* the branch for a source that already carries .indices
CachedBranch(f, sites, indices) ==
    IF sites.kind = "None"
    THEN Outcome("AttributeError", FALSE, NoSitecol, indices,
                 f.integration_distance, FALSE, TRUE)
    ELSE Outcome("none", TRUE, filtered(sites, indices.idx), indices,
                 f.integration_distance, FALSE, TRUE)

\* the branch of prefilter 'no'
NoBranch(f, sites) ==
    Outcome("none", TRUE, sites, NoIndices, f.integration_distance, FALSE, FALSE)

\* the outcome when get_affected_box raises
BoxError(ab) ==
    Outcome(ab.box.err, FALSE, NoSitecol, NoIndices, ab.idist, TRUE, FALSE)

\* the outcome when no site is inside the box: the source is dropped
Dropped(ab) ==
    Outcome("none", FALSE, NoSitecol, NoIndices, ab.idist, TRUE, FALSE)

\* lines 347-350 without the assignment to src.indices
RtreeYieldUncached(sites, indices, ab) ==
    IF indices # {}
    THEN Outcome("none", TRUE, filtered(sites, indices), NoIndices, ab.idist,
                 TRUE, FALSE)
    ELSE Dropped(ab)

\* lines 347-350: indices = within(box, index); if len(indices): ...
RtreeYield(sites, indices, ab) ==
    IF indices # {}
    THEN Outcome("none", TRUE, filtered(sites, indices), Indices(indices),
                 ab.idist, TRUE, FALSE)
    ELSE Dropped(ab)

RtreeWithBox(f, sites, ab) ==
    IF ~ab.box.ok THEN BoxError(ab)
    ELSE RtreeYield(sites, within(ab.box.val, f.index), ab)

\* the branch of prefilter 'rtree'
RtreeBranch(f, src, sites) == RtreeWithBox(f, sites, get_affected_box(f, src))

\* lines 352-355 without the test `s_sites is not None`
NumpyYieldKeepsEmpty(s_sites, ab) ==
    Outcome("none", TRUE, s_sites, Indices(s_sites.sids), ab.idist, TRUE, FALSE)

\* lines 352-355: s_sites = sites.within_bbox(box); if s_sites is not None: ...
NumpyYield(s_sites, ab) ==
    IF s_sites.kind # "None"
    THEN Outcome("none", TRUE, s_sites, Indices(get_indices(s_sites)), ab.idist,
                 TRUE, FALSE)
    ELSE Dropped(ab)

NumpyWithBox(sites, ab) ==
    IF ~ab.box.ok THEN BoxError(ab)
    ELSE NumpyYield(within_bbox(sites, ab.box.val), ab)

\* the branch of prefilter 'numpy'
NumpyBranch(f, src, sites) == NumpyWithBox(sites, get_affected_box(f, src))

\* one iteration of `for src in sources` in SourceFilter.__call__
SourceFilterStep(f, src, sites, indices) ==
    IF indices.has THEN CachedBranch(f, sites, indices)
    ELSE IF f.prefilter = "no" THEN NoBranch(f, sites)
    ELSE IF f.prefilter = "rtree" THEN RtreeBranch(f, src, sites)
    ELSE NumpyBranch(f, src, sites)

---------------------------------------------------------------------------
(* Filtering sources with SourceFilter instances *)

SrcIds  == 1..NSrc
SrcKinds == << [lon |-> 1, trt |-> "A", mag |-> 9],
               [lon |-> 180, trt |-> "A", mag |-> 9],
               [lon |-> 1, trt |-> "B", mag |-> 9] >>

\* the sources take consecutive kinds, starting from any of them
SrcAssignments ==
    { [s \in SrcIds |-> SrcKinds[((s + k) % Len(SrcKinds)) + 1]] :
        k \in 1..Len(SrcKinds) }

FilterTables ==
    { <<>>,
      [t \in {"A"} |-> Scalar(200)],
      [t \in {"A", "default"} |->
          IF t = "A" THEN List(<<Pair(9, 100), Pair(10, 300)>>) ELSE Scalar(200)] }

Sitecols == {NoSitecol, CompleteSitecol, SubSitecol({0})}

Prefilters == {"rtree", "numpy", "no"}

Source(s) == [source_id |-> s, lon |-> srcAttr[s].lon, trt |-> srcAttr[s].trt,
              mag |-> srcAttr[s].mag]

NoWire == [prefilter |-> "None"]
NoCall == [flt |-> 0, sites |-> NoSitecol, sources |-> <<>>, pos |-> 1,
           pc |-> "idle", err |-> "none"]
\* what the instance that assigns src.indices was built with
Configuration(f) ==
    [sitecol |-> f.sitecol, dic |-> f.integration_distance.dic,
     magdist |-> f.integration_distance.magdist]

NoConfiguration == [sitecol |-> NoSitecol, dic |-> <<>>, magdist |-> <<>>]

NoFiltering == [flt |-> 0, yielded |-> FALSE, sids |-> {},
                by |-> NoConfiguration, given |-> FALSE]
NoStep == [src |-> 0, flt |-> 0, err |-> "none", yielded |-> FALSE,
           sites |-> NoSitecol, boxed |-> FALSE, cached |-> FALSE,
           again |-> FALSE, before |-> {}, arg |-> NoSitecol]

FiltIdle ==
    /\ srcAttr = [s \in SrcIds |-> [lon |-> 1, trt |-> "A", mag |-> 9]]
    /\ srcIndices = [s \in SrcIds |-> NoIndices]
    /\ flts = <<>>
    /\ origin = <<>>
    /\ ctorError = "none"
    /\ wire = NoWire
    /\ call = NoCall
    /\ out = <<>>
    /\ lastOn = [s \in SrcIds |-> NoFiltering]
    /\ step = NoStep

DistIdle ==
    /\ dic = <<>>
    /\ magdist = <<>>
    /\ hasPiecewise = FALSE
    /\ piecewise = <<>>
    /\ prev = NoQuery
    /\ last = NoQuery

FiltInit ==
    /\ srcAttr \in SrcAssignments
    /\ srcIndices = [s \in SrcIds |-> NoIndices]
    /\ flts = <<>>
    /\ origin = <<>>
    /\ ctorError = "none"
    /\ wire = NoWire
    /\ call = NoCall
    /\ out = <<>>
    /\ lastOn = [s \in SrcIds |-> NoFiltering]
    /\ step = NoStep

Constructed(r) ==
    IF r.ok
    THEN /\ flts' = <<r.val>>
         /\ origin' = <<0>>
         /\ UNCHANGED ctorError
    ELSE /\ ctorError' = r.err
         /\ UNCHANGED <<flts, origin>>

\* ss_filter = SourceFilter(sitecol, integration_distance, prefilter)
Construct(sitecol, table, prefilter) ==
    /\ flts = <<>>
    /\ ctorError = "none"
    /\ Constructed(SourceFilterInit(sitecol, table, prefilter))
    /\ UNCHANGED <<srcAttr, srcIndices, wire, call, out, lastOn, step>>
    /\ UNCHANGED <<distVars, genVars, concVars, calcVars>>

\* pickle.loads(pickle.dumps(flts[i])): the new instance gets exactly the
\* attributes of the pickled state
Pickle(i) ==
    /\ Len(flts) < MaxFilters
    /\ wire' = SourceFilterGetState(flts[i])
    /\ flts' = Append(flts, wire')
    /\ origin' = Append(origin, i)
    /\ UNCHANGED <<srcAttr, srcIndices, ctorError, call, out, lastOn, step>>
    /\ UNCHANGED <<distVars, genVars, concVars, calcVars>>

\* gen = flts[i](sources, sites), consumed from the start; `sources` is
\* iterated as the loop goes and call.sources records the elements taken
\* from it; empty tells that the iterable has no element at all; sites is
\* NoSitecol when the argument is left to its default, None
StartCall(i, empty, sites) ==
    /\ call.pc # "running"
    /\ call' = [flt |-> i, sites |-> sites, sources |-> <<>>, pos |-> 1,
                pc |-> IF empty THEN "done" ELSE "running", err |-> "none"]
    /\ out' = <<>>
    /\ UNCHANGED <<srcAttr, srcIndices, flts, origin, ctorError, wire,
                   lastOn, step>>
    /\ UNCHANGED <<distVars, genVars, concVars, calcVars>>

\* lines 339-340: if sites is None: sites = self.sitecol
SitesArgument(f, sites) == IF sites.kind = "None" THEN f.sitecol ELSE sites

\* the iteration with outcome o assigns src.indices
Assigns(o, indices) == o.err = "none" /\ o.indices.has /\ ~indices.has

\* the effect of one iteration with outcome o on source s, the next element
\* of the input, by instance i; more tells that the input has elements left
Iterate(i, s, more, o) ==
    /\ flts' = [flts EXCEPT ![i].integration_distance = o.idist]
    /\ lastOn' = [lastOn EXCEPT ![s] =
           [flt |-> i, yielded |-> o.yielded, sids |-> o.sites.sids,
            by |-> IF Assigns(o, srcIndices[s]) THEN Configuration(flts[i])
                   ELSE lastOn[s].by,
            given |-> IF Assigns(o, srcIndices[s]) THEN call.sites.kind # "None"
                      ELSE lastOn[s].given]]
    /\ step' = [src |-> s, flt |-> i, err |-> o.err, yielded |-> o.yielded,
                sites |-> o.sites, boxed |-> o.boxed, cached |-> o.cached,
                again |-> lastOn[s].flt = i /\ lastOn[s].yielded,
                before |-> lastOn[s].sids,
                arg |-> call.sites]
    /\ IF o.err # "none"
       THEN /\ call' = [call EXCEPT !.sources = Append(@, s),
                                    !.pc = "failed", !.err = o.err]
            /\ UNCHANGED <<srcIndices, out>>
       ELSE /\ srcIndices' = [srcIndices EXCEPT ![s] = o.indices]
            /\ out' = IF o.yielded
                      THEN Append(out, [src |-> s, sites |-> o.sites])
                      ELSE out
            /\ call' = [call EXCEPT
                  !.sources = Append(@, s),
                  !.pos = call.pos + 1,
                  !.pc = IF more /\ call.pos < MaxInput
                         THEN "running" ELSE "done"]

\* one iteration of the loop of the running generator
FilterSource(s, more) ==
    /\ call.pc = "running"
    /\ Iterate(call.flt, s, more,
               SourceFilterStep(flts[call.flt], Source(s),
                                SitesArgument(flts[call.flt], call.sites),
                                srcIndices[s]))
    /\ UNCHANGED <<srcAttr, origin, ctorError, wire>>
    /\ UNCHANGED <<distVars, genVars, concVars, calcVars>>

FiltNext ==
    \/ \E sc \in Sitecols, t \in FilterTables, p \in Prefilters :
          Construct(sc, t, p)
    \/ \E i \in 1..Len(flts) : Pickle(i)
    \/ \E i \in 1..Len(flts), empty \in BOOLEAN : StartCall(i, empty, NoSitecol)
    \/ \E s \in SrcIds, more \in BOOLEAN : FilterSource(s, more)

---------------------------------------------------------------------------
(* One source filtered by several SourceFilter instances that were built   *)
(* with different arguments, source_site_noop_filter among them, and by    *)
(* calls that pass a sites argument.                                       *)

ScalarTable == [t \in {"A"} |-> Scalar(200)]
ListTable   == [t \in {"A", "default"} |->
                   IF t = "A" THEN List(<<Pair(9, 100), Pair(10, 300)>>)
                   ELSE Scalar(200)]

\* line 364: source_site_noop_filter = SourceFilter(None, {})
source_site_noop_filter == SourceFilterInit(NoSitecol, <<>>, "rtree").val

SharingFilters ==
    { source_site_noop_filter,
      SourceFilterInit(CompleteSitecol, ScalarTable, "rtree").val,
      SourceFilterInit(CompleteSitecol, ListTable, "rtree").val,
      SourceFilterInit(CompleteSitecol, ListTable, "numpy").val,
      SourceFilterInit(CompleteSitecol, ScalarTable, "no").val }

ShareInit ==
    /\ srcAttr \in SrcAssignments
    /\ srcIndices = [s \in SrcIds |-> NoIndices]
    /\ flts \in [1..2 -> SharingFilters]
    /\ origin = <<0, 0>>
    /\ ctorError = "none"
    /\ wire = NoWire
    /\ call = NoCall
    /\ out = <<>>
    /\ lastOn = [s \in SrcIds |-> NoFiltering]
    /\ step = NoStep

\* the calls flts[i]([src], sites) on the first source
ShareNext ==
    \/ \E i \in 1..Len(flts), sites \in Sitecols : StartCall(i, FALSE, sites)
    \/ FilterSource(1, FALSE)

---------------------------------------------------------------------------
(* gen_ruptures: sources are filtered by distance, their ruptures listed   *)
(* and each rupture filtered by distance again.  A source is a location    *)
(* and the locations of the ruptures it generates.                         *)

GenLocs == {1, 180}
RupLocs == {2, 5}
GenMaxDist == 200

\* a source out of reach of every site is given at most one rupture: its
\* ruptures are never listed
GenSourceKinds ==
    { s \in [loc : GenLocs,
             rups : UNION { [1..n -> RupLocs] : n \in 0..MaxRup }] :
        s.loc \in {1} \/ Len(s.rups) <= 1 }

GenSources == [1..NGenSrc -> GenSourceKinds]

\* the interval of longitudes within maxdist km of a location
ReachOf(loc, maxdist) ==
    <<fix_lon(loc - (maxdist \div KmPerDegree)),
      fix_lon(loc + (maxdist \div KmPerDegree))>>

\* src.filter_sites_by_distance_to_source(maximum_distance, site_coll)
filter_sites_by_distance_to_source(src, maxdist, sites) ==
    within_bbox(sites, ReachOf(src.loc, maxdist))

\* filters.filter_sites_by_distance_to_rupture(rupture, maximum_distance, sites)
filter_sites_by_distance_to_rupture(rupture, maxdist, sites) ==
    within_bbox(sites, ReachOf(rupture, maxdist))

\* an exception as the caller sees it: its type and the source named in its
\* message (0 when the message names none)
NoExc == [etype |-> "none", source_id |-> 0]
Exc(etype) == [etype |-> etype, source_id |-> 0]

\* the context manager: the same exception type, the source id in the message
context(src, exc) == [etype |-> exc.etype, source_id |-> src]

GenStart == [pc |-> "filter", si |-> 1, ri |-> 0, s_sites |-> NoSitecol,
             ruptures |-> <<>>, exc |-> NoExc]

\* `continue` of the outer loop: on to the next source, or StopIteration
NextSource(g) ==
    [g EXCEPT !.pc = IF g.si = NGenSrc THEN "done" ELSE "filter",
              !.si = g.si + 1, !.ri = 0, !.s_sites = NoSitecol,
              !.ruptures = <<>>]

\* leaving the inner loop after the first far away rupture
NextRuptureBreak(g) == NextSource(g)

\* `continue` of the inner loop: on to the next rupture of the source
NextRupture(g) ==
    IF g.ri = Len(g.ruptures) THEN NextSource(g)
    ELSE [g EXCEPT !.pc = "rupture", !.ri = g.ri + 1]

Failed(g, exc) == [g EXCEPT !.pc = "failed", !.exc = exc]

\* listing the ruptures while computing every rupture's distances at once
ListedEagerly(si, rups) == {<<si, k>> : k \in 1..Len(rups)}

\* lines 75-76: the distance computations done by list(src.iter_ruptures())
Listed(si, rups) == {}

GenIdle ==
    /\ genSrc = [i \in 1..NGenSrc |-> [loc |-> 1, rups |-> <<>>]]
    /\ gen = GenStart
    /\ triples = <<>>
    /\ computed = {}

GenInit ==
    /\ genSrc \in GenSources
    /\ gen = GenStart
    /\ triples = <<>>
    /\ computed = {}

\* lines 69-73: the coarse filter of the source
SourceFiltered(s_sites) ==
    /\ gen' = IF s_sites.kind = "None" THEN NextSource(gen)
              ELSE [gen EXCEPT !.pc = "ruptures", !.s_sites = s_sites]
    /\ computed' = computed \cup {<<gen.si, 0>>}
    /\ UNCHANGED <<genSrc, triples>>

GenFilterSource ==
    /\ gen.pc = "filter"
    /\ SourceFiltered(filter_sites_by_distance_to_source(
                          genSrc[gen.si], GenMaxDist, CompleteSitecol))
    /\ UNCHANGED <<distVars, filtVars, concVars, calcVars>>

\* lines 75-78: the ruptures of the source
GenListRuptures ==
    /\ gen.pc = "ruptures"
    /\ gen' = IF genSrc[gen.si].rups = <<>> THEN NextSource(gen)
              ELSE [gen EXCEPT !.pc = "rupture", !.ri = 1,
                               !.ruptures = genSrc[gen.si].rups]
    /\ computed' = computed \cup Listed(gen.si, genSrc[gen.si].rups)
    /\ UNCHANGED <<genSrc, triples>>
    /\ UNCHANGED <<distVars, filtVars, concVars, calcVars>>

\* lines 81-86: the exact filter of one rupture, and the yield
RuptureFiltered(r_sites) ==
    /\ computed' = computed \cup {<<gen.si, gen.ri>>}
    /\ IF r_sites.kind = "None"
       THEN /\ gen' = NextRupture(gen)
            /\ UNCHANGED triples
       ELSE /\ gen' = [gen EXCEPT !.pc = "yielded"]
            /\ triples' = Append(triples, [src |-> gen.si, rup |-> gen.ri,
                                           sids |-> r_sites.sids])
    /\ UNCHANGED genSrc

GenFilterRupture ==
    /\ gen.pc = "rupture"
    /\ RuptureFiltered(filter_sites_by_distance_to_rupture(
                           gen.ruptures[gen.ri], GenMaxDist, gen.s_sites))
    /\ UNCHANGED <<distVars, filtVars, concVars, calcVars>>

\* the consumer asks for the next triple
GenResume ==
    /\ gen.pc = "yielded"
    /\ gen' = NextRupture(gen)
    /\ UNCHANGED <<genSrc, triples, computed>>
    /\ UNCHANGED <<distVars, filtVars, concVars, calcVars>>

\* an exception in the stage the generator is in (a tricky geometry); no
\* `with context(src)` surrounds any stage, the exception leaves as raised
GenRaise(etype) ==
    /\ gen.pc \in {"filter", "ruptures", "rupture"}
    /\ gen' = Failed(gen, Exc(etype))
    /\ UNCHANGED <<genSrc, triples, computed>>
    /\ UNCHANGED <<distVars, filtVars, concVars, calcVars>>

GenNext ==
    \/ GenFilterSource
    \/ GenListRuptures
    \/ GenFilterRupture
    \/ GenResume
    \/ \E etype \in {"ValueError", "RuntimeError"} : GenRaise(etype)

---------------------------------------------------------------------------
(* Concurrent tasks sharing one SourceFilter, its IntegrationDistance and  *)
(* one source.  A task is a distance query or the filtering of the source; *)
(* a step is what runs between two points where the interpreter can switch *)
(* threads: one read or one write of a shared attribute.                   *)

TaskIds == 1..NTasks

ConcTable ==
    [t \in {"A", "default"} |->
        IF t = "A" THEN List(<<Pair(9, 100), Pair(10, 300)>>)
        ELSE List(<<Pair(9, 300)>>)]

ConcSource == [source_id |-> 1, lon |-> 1, trt |-> "A", mag |-> 9]

ConcMags == {10}

NoMd == Piecewise(<<>>, <<>>)

QueryTask(trt, mag) ==
    [kind |-> "query", trt |-> trt, mag |-> mag, pc |-> "q_getdefault",
     md |-> NoMd, dist |-> Raise("none"), found |-> NoIndices,
     yielded |-> FALSE, sids |-> {}]

FilterTask ==
    [kind |-> "filter", trt |-> ConcSource.trt, mag |-> ConcSource.mag,
     pc |-> "f_hasattr", md |-> NoMd, dist |-> Raise("none"),
     found |-> NoIndices, yielded |-> FALSE, sids |-> {}]

TaskChoices ==
    {FilterTask} \cup {QueryTask(trt, mag) : trt \in TRTs, mag \in ConcMags}

\* an interpolant installed before its distances are filled in
PublishedUnfilled(md) == [x |-> md.x, y |-> [i \in 1..Len(md.x) |-> 0]]

\* line 207: the object assigned to self.piecewise[trt] is the built one
Published(md) == md

ConcIdle ==
    /\ shared = [flt |-> SourceFilterInit(CompleteSitecol, <<>>, "no").val,
                 indices |-> NoIndices]
    /\ tasks = [t \in TaskIds |-> FilterTask]
    /\ writes = [pw |-> [trt \in TRTs |-> 0], idx |-> 0]

ConcInit ==
    /\ \E p \in {"rtree", "numpy"} :
          shared = [flt |-> SourceFilterInit(CompleteSitecol, ConcTable, p).val,
                    indices |-> NoIndices]
    /\ tasks \in [TaskIds -> TaskChoices]
    /\ writes = [pw |-> [trt \in TRTs |-> 0], idx |-> 0]

SharedDistance == shared.flt.integration_distance

Goto(t, pc) == tasks' = [tasks EXCEPT ![t].pc = pc]

\* line 342: hasattr(src, 'indices')
TaskHasIndices(t) ==
    /\ tasks[t].pc = "f_hasattr"
    /\ Goto(t, IF shared.indices.has THEN "f_cached" ELSE "q_getdefault")
    /\ UNCHANGED <<shared, writes>>
    /\ UNCHANGED <<distVars, filtVars, genVars, calcVars>>

\* line 343: yield src, sites.filtered(src.indices)
TaskYieldCached(t) ==
    /\ tasks[t].pc = "f_cached"
    /\ tasks' = [tasks EXCEPT
          ![t].pc = "done", ![t].yielded = TRUE,
          ![t].sids = filtered(shared.flt.sitecol, shared.indices.idx).sids]
    /\ UNCHANGED <<shared, writes>>
    /\ UNCHANGED <<distVars, filtVars, genVars, calcVars>>

\* lines 193-197: the entry of the TRT; a scalar or a missing magnitude
\* returns at once
Resolved(t, value) ==
    IF ~value.ok
    THEN tasks' = [tasks EXCEPT ![t].pc = "done", ![t].dist = Raise("KeyError")]
    ELSE IF value.val.kind = "float"
    THEN tasks' = [tasks EXCEPT ![t].pc = "q_return", ![t].dist = Ok(value.val.v)]
    ELSE IF tasks[t].mag = NoMag
    THEN tasks' = [tasks EXCEPT ![t].pc = "q_return", ![t].dist = Ok(MAX_DISTANCE)]
    ELSE Goto(t, "q_hasattr")

TaskGetDefault(t) ==
    /\ tasks[t].pc = "q_getdefault"
    /\ Resolved(t, getdefault(SharedDistance.dic, tasks[t].trt))
    /\ UNCHANGED <<shared, writes>>
    /\ UNCHANGED <<distVars, filtVars, genVars, calcVars>>

\* line 198: not hasattr(self, 'piecewise')
TaskHasPiecewise(t) ==
    /\ tasks[t].pc = "q_hasattr"
    /\ Goto(t, IF SharedDistance.hasPiecewise THEN "q_lookup" ELSE "q_init")
    /\ UNCHANGED <<shared, writes>>
    /\ UNCHANGED <<distVars, filtVars, genVars, calcVars>>

\* line 199: self.piecewise = {}
TaskInitCache(t) ==
    /\ tasks[t].pc = "q_init"
    /\ shared' = [shared EXCEPT
          !.flt.integration_distance.hasPiecewise = TRUE,
          !.flt.integration_distance.piecewise = <<>>]
    /\ Goto(t, "q_lookup")
    /\ UNCHANGED writes
    /\ UNCHANGED <<distVars, filtVars, genVars, calcVars>>

\* lines 200-202: md = self.piecewise[trt], or KeyError
TaskLookup(t) ==
    /\ tasks[t].pc = "q_lookup"
    /\ IF tasks[t].trt \in DOMAIN SharedDistance.piecewise
       THEN tasks' = [tasks EXCEPT
               ![t].pc = "q_eval",
               ![t].md = SharedDistance.piecewise[tasks[t].trt]]
       ELSE Goto(t, "q_build")
    /\ UNCHANGED <<shared, writes>>
    /\ UNCHANGED <<distVars, filtVars, genVars, calcVars>>

\* lines 203-207, right-hand side: Piecewise(mags, dists), built locally
TaskBuild(t) ==
    /\ tasks[t].pc = "q_build"
    /\ tasks' = [tasks EXCEPT
          ![t].pc = "q_install",
          ![t].md = BuildPiecewise(SharedDistance.magdist, tasks[t].trt)]
    /\ UNCHANGED <<shared, writes>>
    /\ UNCHANGED <<distVars, filtVars, genVars, calcVars>>

\* line 207, the assignment: self.piecewise[trt] = md
TaskInstall(t) ==
    /\ tasks[t].pc = "q_install"
    /\ shared' = [shared EXCEPT !.flt.integration_distance.piecewise =
                      (tasks[t].trt :> Published(tasks[t].md)) @@ @]
    /\ writes' = [writes EXCEPT !.pw[tasks[t].trt] = @ + 1]
    /\ Goto(t, "q_eval")
    /\ UNCHANGED <<distVars, filtVars, genVars, calcVars>>

\* line 208: return md(mag)
TaskEval(t) ==
    /\ tasks[t].pc = "q_eval"
    /\ tasks' = [tasks EXCEPT
          ![t].pc = "q_return",
          ![t].dist = Ok(PiecewiseCall(tasks[t].md, tasks[t].mag))]
    /\ UNCHANGED <<shared, writes>>
    /\ UNCHANGED <<distVars, filtVars, genVars, calcVars>>

\* what the branch of the strategy finds in the box, from lines 347-348 and
\* 352-353
Found(f, ab) ==
    IF f.prefilter = "rtree" THEN RtreeWithBox(f, f.sitecol, ab)
    ELSE NumpyWithBox(f.sitecol, ab)

Searched(t, o) ==
    IF o.yielded
    THEN tasks' = [tasks EXCEPT ![t].pc = "f_store", ![t].found = o.indices,
                                ![t].sids = o.sites.sids]
    ELSE Goto(t, "done")

\* the query returns: a query task is done, a filtering task goes on with
\* the box and the sites inside it
TaskReturn(t) ==
    /\ tasks[t].pc = "q_return"
    /\ IF tasks[t].kind = "query" THEN Goto(t, "done")
       ELSE Searched(t, Found(shared.flt,
                AffectedBox(SharedDistance, ConcSource,
                            [out |-> tasks[t].dist,
                             hasPiecewise |-> SharedDistance.hasPiecewise,
                             piecewise |-> SharedDistance.piecewise])))
    /\ UNCHANGED <<shared, writes>>
    /\ UNCHANGED <<distVars, filtVars, genVars, calcVars>>

\* lines 349 and 354: src.indices = ...
TaskStore(t) ==
    /\ tasks[t].pc = "f_store"
    /\ shared' = [shared EXCEPT !.indices = tasks[t].found]
    /\ writes' = [writes EXCEPT !.idx = @ + 1]
    /\ Goto(t, "f_yield")
    /\ UNCHANGED <<distVars, filtVars, genVars, calcVars>>

\* lines 350 and 355: 'rtree' reads src.indices again, 'numpy' yields s_sites
TaskYield(t) ==
    /\ tasks[t].pc = "f_yield"
    /\ tasks' = [tasks EXCEPT
          ![t].pc = "done", ![t].yielded = TRUE,
          ![t].sids = IF shared.flt.prefilter = "rtree"
                      THEN filtered(shared.flt.sitecol, shared.indices.idx).sids
                      ELSE @]
    /\ UNCHANGED <<shared, writes>>
    /\ UNCHANGED <<distVars, filtVars, genVars, calcVars>>

ConcNext ==
    \E t \in TaskIds :
        \/ TaskHasIndices(t)
        \/ TaskYieldCached(t)
        \/ TaskGetDefault(t)
        \/ TaskHasPiecewise(t)
        \/ TaskInitCache(t)
        \/ TaskLookup(t)
        \/ TaskBuild(t)
        \/ TaskInstall(t)
        \/ TaskEval(t)
        \/ TaskReturn(t)
        \/ TaskStore(t)
        \/ TaskYield(t)

---------------------------------------------------------------------------
(* compute_hazard_maps.  A probability or a level is held as its decimal   *)
(* logarithm, an integer: -1 is 0.1, 2 is 100, and EPSILON, 1E-30, is -30. *)
(* A probability of zero is held as any exponent below EPSILON.  An        *)
(* interpolated level is a fraction num / den of such logarithms.          *)

HmImls     == <<0, 1, 3>>
CurveVals  == {-40, -3, -1}
PoeVals    == {-2, -1}

\* numpy arrays: the shape and the elements in row order
Array(shape, data) == [shape |-> shape, data |-> data]

CurveArgs ==
    { Array(<<Len(HmImls)>>, c) : c \in [1..Len(HmImls) -> CurveVals] }
    \cup { Array(<<NCurves, Len(HmImls)>>, cs) :
             cs \in [1..(NCurves * Len(HmImls)) -> CurveVals] }

PoeArgs ==
    { Array(<<>>, <<q>>) : q \in PoeVals }
    \cup { Array(<<NPoes>>, qs) : qs \in [1..NPoes -> PoeVals] }

\* lines 153-156: a scalar poes is reshaped to one element
AsPoes(a) == IF Len(a.shape) = 0 THEN Array(<<1>>, a.data) ELSE a

\* lines 158-160: a 1-D curves is reshaped to one row
AsCurves(a) == IF Len(a.shape) = 1 THEN Array(<<1>> \o a.shape, a.data) ELSE a

\* row r of a 2-D array
Row(a, r) == SubSeq(a.data, (r - 1) * a.shape[2] + 1, r * a.shape[2])

Reversed(q) == [i \in 1..Len(q) |-> q[Len(q) + 1 - i]]

Max2(a, b) == IF a >= b THEN a ELSE b

\* line 167: the curve reversed, the too small poes replaced by EPSILON
curve_cutoff(curve) == [i \in 1..Len(curve) |-> Max2(Reversed(curve)[i], EPSILON)]

Zero          == [kind |-> "zero",     num |-> 0, den |-> 1]
Level(n, d)   == [kind |-> "level",    num |-> n, den |-> d]
Nonsense      == [kind |-> "nonsense", num |-> 0, den |-> 1]

NonDecreasing(q) == \A i \in 1..(Len(q) - 1) : q[i] <= q[i + 1]

\* numpy.interp(x, xp, fp): constant outside xp, fp[j] at xp[j], linear
\* inside; what it returns when xp is not increasing is not specified
Interp(x, xp, fp) ==
    IF ~NonDecreasing(xp) THEN Nonsense
    ELSE IF x > xp[Len(xp)] THEN Level(fp[Len(fp)], 1)
    ELSE IF x < xp[1] THEN Level(fp[1], 1)
    ELSE LET j == CHOOSE k \in 1..Len(xp) :
                     xp[k] <= x /\ \A i \in (k + 1)..Len(xp) : xp[i] > x
         IN  IF j = Len(xp) \/ xp[j] = x THEN Level(fp[j], 1)
             ELSE Level(fp[j] * (xp[j + 1] - xp[j])
                            + (x - xp[j]) * (fp[j + 1] - fp[j]),
                        xp[j + 1] - xp[j])

\* line 172: poe > curve_cutoff[-1]
AboveCurve(poe, cutoff) == poe > cutoff[Len(cutoff)]

\* lines 169-184: one element of hmap_val
HmapVal(curve, poe) ==
    IF AboveCurve(poe, curve_cutoff(curve)) THEN Zero
    ELSE Interp(poe, curve_cutoff(curve), Reversed(HmImls))

HmStart == [pc |-> "running", row |-> 1, col |-> 1, hmap_val |-> <<>>,
            result |-> <<>>]

HmIdle ==
    /\ hmIn = [curves |-> Array(<<Len(HmImls)>>,
                                [i \in 1..Len(HmImls) |-> EPSILON]),
               poes |-> Array(<<>>, <<EPSILON>>)]
    /\ hmRun = [HmStart EXCEPT !.pc = "idle"]


HmInit ==
    /\ hmIn \in [curves : CurveArgs, poes : PoeArgs]
    /\ hmRun = HmStart

\* the loop position after the element just computed; the row is appended
\* to result when its last element is
HmAdvance(val, nrows, ncols) ==
    IF hmRun.col < ncols
    THEN [hmRun EXCEPT !.col = @ + 1, !.hmap_val = Append(@, val)]
    ELSE [hmRun EXCEPT
            !.pc = IF hmRun.row < nrows THEN "running" ELSE "done",
            !.row = @ + 1, !.col = 1, !.hmap_val = <<>>,
            !.result = Append(@, Append(hmRun.hmap_val, val))]

\* one iteration of `for poe in poes` inside `for curve in curves`
HazardMapCell ==
    /\ hmRun.pc = "running"
    /\ hmRun' = HmAdvance(HmapVal(Row(AsCurves(hmIn.curves), hmRun.row),
                                  AsPoes(hmIn.poes).data[hmRun.col]),
                          AsCurves(hmIn.curves).shape[1],
                          AsPoes(hmIn.poes).shape[1])
    /\ UNCHANGED <<hmIn, ecVars, uhVars, ovVars>>
    /\ UNCHANGED <<distVars, filtVars, genVars, concVars>>

HmNext == HazardMapCell

---------------------------------------------------------------------------
(* _gmvs_to_haz_curve.  Ground motion values and levels are integers (in   *)
(* thousandths).  A probability 1 - exp(-x) is held as the fraction x: it  *)
(* is 0 exactly when x is 0 and grows with x.                              *)

EcImls   == <<30, 40, 50>>
GmvVals  == {30, 40, 47, 60}
Times    == {1, 2}

GmvLists == UNION { [1..n -> GmvVals] : n \in 0..MaxGmvs }

\* counting the values above the level only
NumExceedingStrict(gmvs, iml) == Cardinality({j \in 1..Len(gmvs) : gmvs[j] > iml})

\* line 225: numpy.sum(numpy.array(gmvs) >= imls, axis=1), for one level
NumExceeding(gmvs, iml) == Cardinality({j \in 1..Len(gmvs) : gmvs[j] >= iml})

\* line 226: 1 - numpy.exp(- (invest_time / duration) * num_exceeding)
Poe(invest_time, duration, num_exceeding) ==
    [num |-> invest_time * num_exceeding, den |-> duration]

_gmvs_to_haz_curve(gmvs, imls, invest_time, duration) ==
    [i \in 1..Len(imls) |->
        Poe(invest_time, duration, NumExceeding(gmvs, imls[i]))]

NoPoes == [done |-> FALSE, poes |-> <<>>]

EcIdle ==
    /\ ecIn = [gmvs |-> <<>>, imls |-> <<>>, invest_time |-> 1, duration |-> 1]
    /\ ecOut = NoPoes

EcInit ==
    /\ ecIn \in [gmvs : GmvLists, imls : {EcImls, SubSeq(EcImls, 1, 1)},
                 invest_time : Times, duration : Times]
    /\ ecOut = NoPoes

\* the call: the whole curve is computed at once
ExceedanceCurve ==
    /\ ~ecOut.done
    /\ ecOut' = [done |-> TRUE,
                 poes |-> _gmvs_to_haz_curve(ecIn.gmvs, ecIn.imls,
                                             ecIn.invest_time, ecIn.duration)]
    /\ UNCHANGED <<ecIn, hmVars, uhVars, ovVars>>
    /\ UNCHANGED <<distVars, filtVars, genVars, concVars>>

EcNext == ExceedanceCurve

---------------------------------------------------------------------------
(* get_imts_periods and make_uhs.  An intensity measure type is the tuple  *)
(* built by from_string: its name and its period, in tenths of a second,   *)
(* NoPeriod being the None of a type without period.  A hazard-map column  *)
(* '%s-%s' % (imt, poe) is the pair <<imt, poe>>, a probability is the     *)
(* string str(poe), and a value is an integer that float32 holds exactly.  *)
(* The interpreter is part of the input: under Python 2 map() returns a    *)
(* list and None sorts before every number, under Python 3 map() returns   *)
(* an iterator that can be walked once and None is not ordered with        *)
(* numbers.                                                                *)

NoPeriod     == -1
Interpreters == {2, 3}
ImtStrings   == {"PGA", "PGV", "SA(0.1)", "SA(0.5)", "SA(1.0)"}
UhsPoes      == {<<"0.1">>, <<"0.02">>, <<"0.1", "0.02">>, <<"0.02", "0.1">>}

\* openquake.hazardlib.imt.from_string: the tuple (name, period, damping)
from_string(s) ==
    CASE s = "SA(0.1)" -> [name |-> "SA", period |-> 1]
      [] s = "SA(0.5)" -> [name |-> "SA", period |-> 5]
      [] s = "SA(1.0)" -> [name |-> "SA", period |-> 10]
      [] OTHER         -> [name |-> s, period |-> NoPeriod]

\* str(imt): 'SA(<period>)' for a spectral acceleration, else the name
ImtStr(imt) ==
    IF imt.name = "SA"
    THEN CHOOSE s \in ImtStrings : from_string(s) = imt
    ELSE imt.name

\* imt.startswith('SA')
StartsWithSA(s) == s \in {"SA(0.1)", "SA(0.5)", "SA(1.0)"}

\* the generator expression inside sorted(): the types that are kept
Selected(imtls) == {from_string(s) : s \in {t \in imtls : StartsWithSA(t) \/ t = "PGA"}}

\* sorted(..., key=getperiod) compares None with a number
Unorderable(imts, py) ==
    /\ py = 3
    /\ \E a, b \in imts : a.period = NoPeriod /\ b.period # NoPeriod

\* sorted(..., key=getperiod) where the keys can be compared
RECURSIVE SortedByPeriod(_)
SortedByPeriod(imts) ==
    IF imts = {} THEN <<>>
    ELSE <<CHOOSE m \in imts : \A y \in imts : m.period <= y.period>>
         \o SortedByPeriod(imts \ {CHOOSE m \in imts :
                                      \A y \in imts : m.period <= y.period})

\* imt[1] or 0.0
PeriodOrZero(imt) == IF imt.period = NoPeriod THEN 0 ELSE imt.period

\* the pair returned by get_imts_periods
get_imts_periods(imtls) ==
    [imts    |-> [i \in 1..Cardinality(Selected(imtls)) |->
                     ImtStr(SortedByPeriod(Selected(imtls))[i])],
     periods |-> [i \in 1..Cardinality(Selected(imtls)) |->
                     PeriodOrZero(SortedByPeriod(Selected(imtls))[i])]]

Elems(seq) == {seq[i] : i \in 1..Len(seq)}

\* what a second walk over map(str, imts) yields
WalkedAgain(imts, py) == IF py = 3 THEN <<>> ELSE imts

\* numpy.zeros(N, uhs_dt) after the assignments of the two loops
UhsValues(maps, imts, poes, py) ==
    [c \in Elems(poes) \X Elems(imts) |->
        IF c[2] \in Elems(WalkedAgain(imts, py))
        THEN maps.col[<<c[2], c[1]>>]
        ELSE [n \in 1..maps.N |-> 0]]

NoFields == [c \in {} |-> <<>>]
NoUhs    == [kind |-> "none", poes |-> <<>>, imts |-> <<>>, vals |-> NoFields]
UhsError == [kind |-> "TypeError", poes |-> <<>>, imts |-> <<>>,
             vals |-> NoFields]

make_uhs(maps, imtls, poes, py) ==
    IF Unorderable(Selected(imtls), py) THEN UhsError
    ELSE [kind |-> "uhs",
          poes |-> poes,
          imts |-> get_imts_periods(imtls).imts,
          vals |-> UhsValues(maps, get_imts_periods(imtls).imts, poes, py)]

\* hazard maps of N sites with a column for every type and probability;
\* the columns hold values that differ from column to column
MapValue(s, p, n, seed) ==
    100 * PeriodOrZero(from_string(s)) + (IF s = "PGV" THEN 50 ELSE 0)
        + 10 * Len(p) + n + seed

HazardMaps(N, seed) ==
    [N   |-> N,
     col |-> [c \in ImtStrings \X {"0.1", "0.02"} |->
                 [n \in 1..N |-> MapValue(c[1], c[2], n, seed)]]]

UhIdle ==
    /\ uhIn = [maps |-> HazardMaps(1, 0), imtls |-> {}, poes |-> <<>>, py |-> 2]
    /\ uhOut = NoUhs

UhInit ==
    /\ \E N \in 1..NMapSites, seed \in {0, 1} :
         uhIn \in [maps  : {HazardMaps(N, seed)},
                   imtls : {S \in SUBSET ImtStrings : Selected(S) # {}},
                   poes  : UhsPoes,
                   py    : Interpreters]
    /\ uhOut = NoUhs

\* the call
MakeUhs ==
    /\ uhOut.kind = "none"
    /\ uhOut' = make_uhs(uhIn.maps, uhIn.imtls, uhIn.poes, uhIn.py)
    /\ UNCHANGED <<uhIn, hmVars, ecVars, ovVars>>
    /\ UNCHANGED <<distVars, filtVars, genVars, concVars>>

UhNext == MakeUhs

---------------------------------------------------------------------------
(* check_overflow.  A count is the pair (hi, lo) of the number             *)
(* hi * 2^16 + lo, so that counts around 2^32 can be written.  The order   *)
(* in which `for var in max_` walks the dictionary is part of the input:   *)
(* it is the insertion order only from Python 3.7 on.                      *)

Half == 65536

Count(hi, lo) == [hi |-> hi, lo |-> lo]

\* n + k for -Half < k < Half
Plus(n, k) ==
    IF n.lo + k < 0 THEN Count(n.hi - 1, n.lo + k + Half)
    ELSE IF n.lo + k >= Half THEN Count(n.hi + 1, n.lo + k - Half)
    ELSE Count(n.hi, n.lo + k)

\* num_[var] >= max_[var]
AtLeast(a, b) == a.hi > b.hi \/ (a.hi = b.hi /\ a.lo >= b.lo)

\* num_[var] > max_[var]
Exceeds(a, b) == a.hi > b.hi \/ (a.hi = b.hi /\ a.lo > b.lo)

OvVars == {"sites", "events", "imts"}

\* max_ = dict(sites=2**16, events=2**32, imts=2**8)
max_ == [sites |-> Count(1, 0), events |-> Count(Half, 0), imts |-> Count(0, 256)]

\* the counts around each ceiling
Around(n) == {Plus(n, k) : k \in -MaxExcess..MaxExcess}

\* the orders in which a dictionary of three keys can be walked
DictOrders == {o \in [1..3 -> OvVars] : \A i, j \in 1..3 : i # j => o[i] # o[j]}

NoOverflow == [kind |-> "none", limit |-> Count(0, 0), var |-> "",
               got |-> Count(0, 0)]
Passed     == [kind |-> "returned", limit |-> Count(0, 0), var |-> "",
               got |-> Count(0, 0)]

\* ValueError('The event based calculator is restricted to %d %s, got %d')
Restricted(limit, var, got) ==
    [kind |-> "ValueError", limit |-> limit, var |-> var, got |-> got]

\* the loop over max_, from the i-th key on
RECURSIVE CheckFrom(_, _, _)
CheckFrom(i, order, num_) ==
    IF i > Len(order) THEN Passed
    ELSE IF Exceeds(num_[order[i]], max_[order[i]])
         THEN Restricted(max_[order[i]], order[i], num_[order[i]])
         ELSE CheckFrom(i + 1, order, num_)

check_overflow(num_, order) == CheckFrom(1, order, num_)

OvIdle ==
    /\ ovIn = [num_ |-> [sites |-> Count(0, 0), events |-> Count(0, 0),
                        imts |-> Count(0, 0)],
               order |-> <<"sites", "events", "imts">>]
    /\ ovOut = NoOverflow

OvInit ==
    /\ ovIn \in [num_  : [sites : Around(max_.sites), events : Around(max_.events),
                          imts : Around(max_.imts)],
                 order : DictOrders]
    /\ ovOut = NoOverflow

\* the call
CheckOverflow ==
    /\ ovOut.kind = "none"
    /\ ovOut' = check_overflow(ovIn.num_, ovIn.order)
    /\ UNCHANGED <<ovIn, hmVars, ecVars, uhVars>>
    /\ UNCHANGED <<distVars, filtVars, genVars, concVars>>

OvNext == CheckOverflow

CalcIdle == HmIdle /\ EcIdle /\ UhIdle /\ OvIdle

---------------------------------------------------------------------------
(* Specifications *)

Init == FiltInit /\ DistIdle /\ GenIdle /\ ConcIdle /\ CalcIdle

Next == FiltNext

Spec == Init /\ [][Next]_vars

InitDist == DistInit /\ FiltIdle /\ GenIdle /\ ConcIdle /\ CalcIdle

SpecDist == InitDist /\ [][DistNext]_vars

InitGen == GenInit /\ DistIdle /\ FiltIdle /\ ConcIdle /\ CalcIdle

SpecGen == InitGen /\ [][GenNext]_vars

InitConc == ConcInit /\ DistIdle /\ FiltIdle /\ GenIdle /\ CalcIdle

SpecConc == InitConc /\ [][ConcNext]_vars

InitMaps == HmInit /\ EcIdle /\ UhIdle /\ OvIdle /\ DistIdle /\ FiltIdle /\ GenIdle /\ ConcIdle

SpecMaps == InitMaps /\ [][HmNext]_vars

InitCurve == EcInit /\ HmIdle /\ UhIdle /\ OvIdle /\ DistIdle /\ FiltIdle /\ GenIdle /\ ConcIdle

SpecCurve == InitCurve /\ [][EcNext]_vars

InitUhs == UhInit /\ HmIdle /\ EcIdle /\ OvIdle /\ DistIdle /\ FiltIdle /\ GenIdle /\ ConcIdle

SpecUhs == InitUhs /\ [][UhNext]_vars

InitOverflow == OvInit /\ HmIdle /\ EcIdle /\ UhIdle /\ DistIdle /\ FiltIdle /\ GenIdle
                /\ ConcIdle

SpecOverflow == InitOverflow /\ [][OvNext]_vars

InitShare == ShareInit /\ DistIdle /\ GenIdle /\ ConcIdle /\ CalcIdle

SpecShare == InitShare /\ [][ShareNext]_vars

---------------------------------------------------------------------------
(* Properties of SourceFilter *)

Filtering(f) == f.prefilter \in {"rtree", "numpy"}

\* the sites of the complete collection inside the affected box of source s
\* as filter f computes it
BoxOf(f, s) == get_affected_box(f, Source(s)).box

BoxSids(f, s) == within(BoxOf(f, s).val, Sids)

Processed == SubSeq(call.sources, 1, call.pos - 1)

\* the pairs a filtering strategy owes for the sources processed so far
OwedPairs(f) ==
    LET Hit(s) == BoxSids(f, s) # {}
        hits == SelectSeq(Processed, Hit)
    IN  [k \in 1..Len(hits) |-> [src |-> hits[k], sids |-> BoxSids(f, hits[k])]]

OutPairs == [k \in 1..Len(out) |-> [src |-> out[k].src, sids |-> out[k].sites.sids]]

BoxRule(f) ==
    /\ \A k \in 1..Len(Processed) : BoxOf(f, Processed[k]).ok
    /\ OutPairs = OwedPairs(f)
    /\ \A k \in 1..Len(Processed) :
          srcIndices[Processed[k]] =
             IF BoxSids(f, Processed[k]) # {}
             THEN Indices(BoxSids(f, Processed[k])) ELSE NoIndices

PassThroughRule(f) ==
    /\ OutPairs = [k \in 1..Len(Processed) |->
                      [src |-> Processed[k], sids |-> f.sitecol.sids]]
    /\ \A s \in SrcIds : ~srcIndices[s].has

\* C1 as stated: whenever a filter has yielded a source, its next filtering
\* of that source yields the same sites, read from the indices cached on the
\* source, without computing the affected box -- for any SourceFilter.
C1_AnyFilter ==
    step.again =>
        /\ step.yielded
        /\ step.sites.sids = step.before
        /\ step.cached
        /\ ~step.boxed

\* C1 amended: the above for the strategies rtree and numpy; a filter with
\* strategy 'no' yields the same sites again without computing a box, but
\* there is no cached index set and it reads none.
C1_Idempotent ==
    step.again =>
        /\ step.yielded
        /\ step.sites.sids = step.before
        /\ ~step.boxed
        /\ step.cached = Filtering(flts[step.flt])
        /\ Filtering(flts[step.flt]) => srcIndices[step.src] = Indices(step.before)

C1_Witness ==
    /\ step.again /\ step.cached /\ step.yielded
    /\ flts[step.flt].prefilter = "rtree"
    /\ step.sites.sids # Sids

\* C2 as stated: the pairs yielded so far are, in input order, exactly the
\* processed sources whose affected box contains a site, each with the sites
\* in its box, and exactly those sources got their indices cached -- for
\* any filter whose boxes can be computed.
C2_AnyFilter ==
    (call.flt # 0 /\ \A k \in 1..Len(Processed) :
                        BoxOf(flts[call.flt], Processed[k]).ok)
        => BoxRule(flts[call.flt])

\* C2 amended: the above for the strategies rtree and numpy; a filter with
\* strategy 'no' yields every processed source, in input order, with its
\* whole site collection, and caches nothing.
C2_Subsequence ==
    call.flt # 0 =>
        IF Filtering(flts[call.flt]) THEN BoxRule(flts[call.flt])
        ELSE PassThroughRule(flts[call.flt])

C2_Witness ==
    /\ call.pc = "done" /\ Filtering(flts[call.flt])
    /\ Len(call.sources) = 2 /\ Len(out) = 1
    /\ out[1].src = call.sources[2]
    /\ ~srcIndices[call.sources[1]].has

\* C6: a pickled state carries no index; the instance rebuilt from it uses
\* 'numpy' where the original used 'rtree' and the original's strategy
\* otherwise, has no index, and has the same site collection and the same
\* integration distance table.
C6_PickledWithoutIndex ==
    /\ "index" \notin DOMAIN wire
    /\ \A j \in 1..Len(flts) :
          origin[j] # 0 =>
             LET o == flts[origin[j]]
             IN  /\ "index" \notin DOMAIN flts[j]
                 /\ flts[j].prefilter =
                       IF o.prefilter = "rtree" THEN "numpy" ELSE o.prefilter
                 /\ flts[j].sitecol = o.sitecol
                 /\ flts[j].integration_distance.dic = o.integration_distance.dic
                 /\ flts[j].integration_distance.magdist =
                       o.integration_distance.magdist

C6_Witness ==
    \E j \in 1..Len(flts) :
        /\ origin[j] # 0
        /\ "index" \in DOMAIN flts[origin[j]]
        /\ flts[j].prefilter = "numpy"
        /\ step.flt = j /\ step.yielded

---------------------------------------------------------------------------
(* Properties of IntegrationDistance *)

\* the entry a query for trt resolves to
Entry(trt) == getdefault(dic, trt)

ListEntry(trt) == trt \in TRTs /\ Entry(trt).ok /\ Entry(trt).val.kind = "list"

Points(trt) == Entry(trt).val.pts

NonDecreasingDists(p) == \A i \in 1..(Len(p) - 1) : p[i].dist <= p[i + 1].dist

\* two successive queries with magnitudes on the same list entry, both answered
Comparable ==
    /\ prev.trt = last.trt /\ ListEntry(last.trt)
    /\ prev.mag # NoMag /\ last.mag # NoMag
    /\ prev.out.ok /\ last.out.ok

Ordered ==
    /\ prev.mag <= last.mag => prev.out.val <= last.out.val
    /\ prev.mag >= last.mag => prev.out.val >= last.out.val

\* C9 as stated: on a list of control points with ascending magnitudes the
\* distance never decreases when the magnitude grows.
C9_AnyList == Comparable => Ordered

\* C9 amended: the same, for lists whose distances are non-decreasing too
\* and, when the last magnitude is below 11, do not exceed MAX_DISTANCE.
C9_Monotone ==
    ( /\ Comparable
      /\ NonDecreasingDists(Points(last.trt))
      /\ Points(last.trt)[Len(Points(last.trt))].mag < SyntheticMag
            => Points(last.trt)[Len(Points(last.trt))].dist <= MAX_DISTANCE )
    => Ordered

C9_Witness ==
    /\ Comparable /\ NonDecreasingDists(Points(last.trt))
    /\ Len(Points(last.trt)) = 2
    /\ prev.mag < last.mag
    /\ prev.out.val = Points(last.trt)[1].dist
    /\ last.out.val = Points(last.trt)[2].dist
    /\ prev.out.val < last.out.val

AboveAllPoints ==
    /\ ListEntry(last.trt) /\ last.mag # NoMag
    /\ last.mag > Points(last.trt)[Len(Points(last.trt))].mag

C5_NoLateConfigurationError == last.out.err # "KeyError"

\* the control points of a list entry as the lookup sees them: the synthetic
\* point closes the list when its last magnitude is below 11
LookupPoints(trt) ==
    IF Points(trt)[Len(Points(trt))].mag < SyntheticMag
    THEN Append(Points(trt), Pair(SyntheticMag, MAX_DISTANCE))
    ELSE Points(trt)

FirstAtLeast(p, m) ==
    CHOOSE j \in 1..Len(p) : p[j].mag >= m /\ \A k \in 1..(j - 1) : p[k].mag < m

\* C11: a magnitude query on a list entry, also one reached through
\* 'default', returns the lowest point's distance at or below the lowest
\* magnitude and otherwise the distance of the first control point whose
\* magnitude is at least the queried one.
C11_NearestHigher ==
    (ListEntry(last.trt) /\ last.mag # NoMag) =>
        /\ last.mag <= LookupPoints(last.trt)[1].mag =>
               last.out = Ok(LookupPoints(last.trt)[1].dist)
        /\ (/\ last.mag > LookupPoints(last.trt)[1].mag
            /\ \E j \in 1..Len(LookupPoints(last.trt)) :
                   LookupPoints(last.trt)[j].mag >= last.mag) =>
               last.out = Ok(LookupPoints(last.trt)[
                                FirstAtLeast(LookupPoints(last.trt), last.mag)].dist)

\* a query through 'default' strictly between two configured points
C11_Witness ==
    /\ ListEntry(last.trt) /\ last.trt \notin DOMAIN dic
    /\ Len(Points(last.trt)) = 2
    /\ Points(last.trt)[1].mag < last.mag
    /\ last.mag < Points(last.trt)[2].mag
    /\ Points(last.trt)[1].dist # Points(last.trt)[2].dist
    /\ last.out = Ok(Points(last.trt)[2].dist)

---------------------------------------------------------------------------
(* Properties of gen_ruptures *)

Coarse(i) == filter_sites_by_distance_to_source(genSrc[i], GenMaxDist,
                                                CompleteSitecol)

RSites(i, k) == filter_sites_by_distance_to_rupture(genSrc[i].rups[k],
                                                    GenMaxDist, Coarse(i))

\* rupture k of source i keeps at least one site after both filters
Kept(i, k) == Coarse(i).kind # "None" /\ RSites(i, k).kind # "None"

Before(a, b, i, k) == a < i \/ (a = i /\ b < k)

\* C3: the triples are in generation order without repetition, each is a
\* rupture that keeps a site, with the sites it keeps; when the generator is
\* exhausted every such rupture has its triple, whatever sources without
\* sites or ruptures and far away ruptures came in between.
C3_OneTriplePerKeptRupture ==
    /\ \A n \in 1..Len(triples) :
          /\ triples[n].src \in 1..NGenSrc
          /\ triples[n].rup \in 1..Len(genSrc[triples[n].src].rups)
          /\ Kept(triples[n].src, triples[n].rup)
          /\ triples[n].sids = RSites(triples[n].src, triples[n].rup).sids
    /\ \A n \in 1..(Len(triples) - 1) :
          Before(triples[n].src, triples[n].rup,
                 triples[n + 1].src, triples[n + 1].rup)
    /\ gen.pc = "done" =>
          \A i \in 1..NGenSrc : \A k \in 1..Len(genSrc[i].rups) :
              Kept(i, k) => \E n \in 1..Len(triples) :
                               triples[n].src = i /\ triples[n].rup = k

C3_Witness ==
    /\ gen.pc = "done"
    /\ Len(triples) = 2
    /\ triples[1].src = 2 /\ triples[2].src = 2
    /\ Len(genSrc[2].rups) = 2
    /\ triples[2].sids # Sids
    /\ Coarse(1).kind = "None"

\* C4: an exception raised while a source is processed reaches the caller
\* with its type and with the identifier of that source in its message.
C4_SourceIdInMessage ==
    gen.pc = "failed" =>
        /\ gen.exc.etype \in {"ValueError", "RuntimeError"}
        /\ gen.exc.source_id = gen.si

\* C7: when a triple has just been yielded, no distance has been computed
\* for a later rupture of its source nor for a later source.
C7_NothingComputedAhead ==
    gen.pc = "yielded" =>
        \A c \in computed : ~Before(gen.si, gen.ri, c[1], c[2])

C7_Witness ==
    /\ gen.pc = "yielded"
    /\ gen.si < NGenSrc
    /\ gen.ri < Len(gen.ruptures)
    /\ <<gen.si, gen.ri>> \in computed

---------------------------------------------------------------------------
(* Properties of the caches under concurrent tasks *)

\* what a task obtains when it runs alone on fresh objects
FreshFilter == SourceFilterInit(CompleteSitecol, ConcTable, shared.flt.prefilter).val

AloneDistance(trt, mag) ==
    IntegrationDistanceCall(FreshFilter.integration_distance.dic,
                            FreshFilter.integration_distance.magdist,
                            FALSE, <<>>, trt, mag).out

AloneFiltering == SourceFilterStep(FreshFilter, ConcSource, CompleteSitecol, NoIndices)

\* every cache entry is a fully built value, the one a task alone installs
InstalledBuilt ==
    /\ \A trt \in DOMAIN SharedDistance.piecewise :
          SharedDistance.piecewise[trt] =
             BuildPiecewise(SharedDistance.magdist, trt)
    /\ shared.indices.has => shared.indices = AloneFiltering.indices

\* the interpolant a task is about to evaluate is a fully built one
NothingPartialRead ==
    \A t \in TaskIds :
        tasks[t].pc = "q_eval" =>
            tasks[t].md = BuildPiecewise(SharedDistance.magdist, tasks[t].trt)

\* a finished task has not failed and has the result of a run alone
SameAsAlone ==
    \A t \in TaskIds :
        tasks[t].pc = "done" =>
            /\ tasks[t].kind = "query" =>
                  /\ tasks[t].dist = AloneDistance(tasks[t].trt, tasks[t].mag)
                  /\ tasks[t].dist.ok
            /\ tasks[t].kind = "filter" =>
                  /\ tasks[t].dist.err \in {"none"}
                  /\ tasks[t].yielded = AloneFiltering.yielded
                  /\ tasks[t].sids = AloneFiltering.sites.sids

WrittenOnce ==
    /\ \A trt \in TRTs : writes.pw[trt] <= 1
    /\ writes.idx <= 1

\* C8 as stated: each key of the two caches is written once, only as a fully
\* built value; no task reads a partial entry or fails; every task has the
\* result of a sequential run.
C8_WriteOnceAtomic ==
    WrittenOnce /\ InstalledBuilt /\ NothingPartialRead /\ SameAsAlone

\* C8 amended: a key may be written more than once, and always with the
\* same fully built value; no task reads a partial entry or fails; every
\* task has the result of a sequential run.
C8_IdempotentAtomic == InstalledBuilt /\ NothingPartialRead /\ SameAsAlone

C8_Witness ==
    /\ \A t \in TaskIds : tasks[t].pc = "done" /\ tasks[t].yielded
    /\ writes.pw["A"] = 2
    /\ writes.idx = 2

---------------------------------------------------------------------------
(* Properties of compute_hazard_maps *)

\* the curves and the targets as the caller gave them, one by one
HmRows ==
    IF Len(hmIn.curves.shape) = 1 THEN <<hmIn.curves.data>>
    ELSE [r \in 1..hmIn.curves.shape[1] |->
             [i \in 1..hmIn.curves.shape[2] |->
                 hmIn.curves.data[(r - 1) * hmIn.curves.shape[2] + i]]]

HmCols == hmIn.poes.data

Clipped(curve) == [i \in 1..Len(curve) |-> Max2(curve[i], EPSILON)]

NonIncreasing(q) == \A i \in 1..(Len(q) - 1) : q[i] >= q[i + 1]

\* poe exceeds the greatest probability of the clipped curve
AboveCurveMax(poe, clipped) == \A i \in 1..Len(clipped) : poe > clipped[i]

\* val is the level at which the log-log interpolation of the curve c over
\* the levels HmImls meets the probability x
LogLogLevel(val, c, x) ==
    /\ val.kind = "level"
    /\ \/ \E i \in 1..Len(c) : c[i] = x /\ val.num = HmImls[i] * val.den
       \/ (\A i \in 1..Len(c) : x < c[i])
             /\ val.num = HmImls[Len(HmImls)] * val.den
       \/ \E i \in 1..(Len(c) - 1) :
             /\ c[i] > x /\ x > c[i + 1]
             /\ (val.num - HmImls[i] * val.den) * (c[i + 1] - c[i])
                   = (x - c[i]) * (HmImls[i + 1] - HmImls[i]) * val.den

\* the rows and elements computed so far, hmap_val being the row under way
HmCells ==
    { <<r, k>> \in (1..Len(HmRows)) \X (1..Len(HmCols)) :
         r < hmRun.row \/ (r = hmRun.row /\ k < hmRun.col) }

HmCell(r, k) ==
    IF r < hmRun.row THEN hmRun.result[r][k] ELSE hmRun.hmap_val[k]

HmShape ==
    /\ Len(hmRun.result) = hmRun.row - 1
    /\ \A r \in 1..Len(hmRun.result) : Len(hmRun.result[r]) = Len(HmCols)
    /\ hmRun.pc = "done" => Len(hmRun.result) = Len(HmRows)

\* C12: the element for curve r and target k is 0 exactly when the target
\* exceeds the greatest clipped probability of the curve, and the log-log
\* interpolated level otherwise; the result is N x P in input order.
C12_ZeroAboveMaximum ==
    /\ HmShape
    /\ \A rk \in HmCells :
          IF AboveCurveMax(HmCols[rk[2]], Clipped(HmRows[rk[1]]))
          THEN HmCell(rk[1], rk[2]) = Zero
          ELSE LogLogLevel(HmCell(rk[1], rk[2]), Clipped(HmRows[rk[1]]),
                           HmCols[rk[2]])

\* the same for curves whose probabilities do not grow with the level
HmNonIncreasingRule ==
    /\ HmShape
    /\ \A rk \in HmCells :
          NonIncreasing(HmRows[rk[1]]) =>
             IF AboveCurveMax(HmCols[rk[2]], Clipped(HmRows[rk[1]]))
             THEN HmCell(rk[1], rk[2]) = Zero
             ELSE LogLogLevel(HmCell(rk[1], rk[2]), Clipped(HmRows[rk[1]]),
                              HmCols[rk[2]])

HmNonIncreasingSeen ==
    /\ hmRun.pc = "done" /\ Len(HmRows) = 2 /\ Len(HmCols) = 2
    /\ \A r \in 1..2 : NonIncreasing(HmRows[r])
    /\ hmRun.result[1][1] = Zero
    /\ hmRun.result[2][1].kind = "level" /\ hmRun.result[2][1].den > 1

---------------------------------------------------------------------------
(* Properties of _gmvs_to_haz_curve *)

\* the samples that do not reach the level
Below(i) == {j \in 1..Len(ecIn.gmvs) : ecIn.gmvs[j] < ecIn.imls[i]}

Reaching(i) == Len(ecIn.gmvs) - Cardinality(Below(i))

---------------------------------------------------------------------------
(* Properties of make_uhs *)

\* the period a type is ordered by, PGA counting as 0.0
PeriodOf(s) == PeriodOrZero(from_string(s))

Ascending(imts) ==
    \A i, j \in 1..Len(imts) : i < j => PeriodOf(imts[i]) <= PeriodOf(imts[j])

SpectralTypes(imtls) == {s \in imtls : from_string(s).name = "SA" \/ s = "PGA"}

HoldsColumns(uhs, in) ==
    /\ uhs.poes = in.poes
    /\ Elems(uhs.imts) = SpectralTypes(in.imtls)
    /\ Len(uhs.imts) = Cardinality(SpectralTypes(in.imtls))
    /\ Ascending(uhs.imts)
    /\ \A p \in Elems(in.poes), s \in SpectralTypes(in.imtls),
         n \in 1..in.maps.N :
           uhs.vals[<<p, s>>][n] = in.maps.col[<<s, p>>][n]

\* C14: for every site, target probability and spectral acceleration type
\* (SA(...) or PGA, the other types excluded) the built UHS record holds
\* under (probability, type) the value of the hazard-map column
\* '<type>-<probability>', the types ordered by ascending period with PGA
\* as period 0.0
C14_UhsHoldsColumns == uhOut.kind = "uhs" => HoldsColumns(uhOut, uhIn)

\* where map() returns a list the record holds the columns
UhsFromListHoldsColumns ==
    (uhOut.kind = "uhs" /\ uhIn.py = 2) => HoldsColumns(uhOut, uhIn)

UhsFromListSeen ==
    /\ uhOut.kind = "uhs"
    /\ uhIn.py = 2
    /\ {"PGA", "PGV", "SA(0.5)"} \subseteq uhIn.imtls
    /\ Len(uhIn.poes) = 2
    /\ uhOut.imts[1] = "PGA"

---------------------------------------------------------------------------
(* Properties of check_overflow *)

OvChecked == ovOut.kind # "none"

\* a count is within a ceiling when it is at most the ceiling
Within(n, ceiling) ==
    n.hi < ceiling.hi \/ (n.hi = ceiling.hi /\ n.lo <= ceiling.lo)

TooMany(var) == ~Within(ovIn.num_[var], max_[var])

Cites(var) == ovOut = Restricted(max_[var], var, ovIn.num_[var])

\* C15 as stated: whenever the site count exceeds 65536 a capacity error is
\* raised that cites 'sites', 65536 and the site count, whatever the other
\* counts are; with every count within its ceiling nothing is raised
C15_SitesAlwaysCited ==
    OvChecked =>
        /\ TooMany("sites") => Cites("sites")
        /\ (\A v \in OvVars : ~TooMany(v)) => ovOut = Passed

\* C15: whenever the site count exceeds 65536 a capacity error is raised,
\* whatever the other counts are; it cites a dimension that exceeds its
\* ceiling, the first one in the iteration order of the dictionary, with
\* its ceiling and its count: 'sites', 65536 and the site count when no
\* other dimension exceeds; with every count within its ceiling nothing is
\* raised
C15_SomeExceedingCited ==
    OvChecked =>
        /\ TooMany("sites") => \E v \in OvVars : TooMany(v) /\ Cites(v)
        /\ (TooMany("sites") /\ ~TooMany("events") /\ ~TooMany("imts"))
               => Cites("sites")
        /\ \A i \in 1..3 :
             (TooMany(ovIn.order[i]) /\ \A j \in 1..(i - 1) : ~TooMany(ovIn.order[j]))
                 => Cites(ovIn.order[i])
        /\ (\A v \in OvVars : ~TooMany(v)) => ovOut = Passed

C15_Witness ==
    /\ OvChecked
    /\ ovIn.num_.sites = Count(1, 1)
    /\ TooMany("events")
    /\ Cites("events")

---------------------------------------------------------------------------
(* Properties of the index set cached on a source shared by filters *)

Yielding == flts[step.flt]

\* the sites the yielding filter was called with
CalledWith == SitesArgument(Yielding, step.arg)

\* the sites of the yielding filter's collection inside the affected box
\* of the source computed with its own integration distance, or the full
\* site set for the strategy 'no'
OwnSubset ==
    IF Filtering(Yielding)
    THEN {sid \in Yielding.sitecol.sids :
             InBox(SiteLon(sid), BoxOf(Yielding, step.src).val)}
    ELSE CalledWith.sids

\* the instance that cached the index set was built with the collection
\* and the distances of the yielding one, and called without sites
SameConfiguration ==
    /\ srcIndices[step.src].has
    /\ ~lastOn[step.src].given
    /\ lastOn[step.src].by = Configuration(Yielding)

\* C16 as stated: whatever filters have been called on a source before,
\* with or without a sites argument, the subset yielded for it is the sites
\* of the yielding filter's collection inside the affected box computed with
\* the yielding filter's integration distance, or the full site set for the
\* strategy 'no'
C16_AnyFilters == step.yielded => step.sites.sids = OwnSubset

\* C16: a source that carries a cached index set is yielded with the
\* complete collection restricted to that set, whichever filter cached it;
\* the subset is the yielding filter's own when the set was cached by an
\* instance with the same collection and distances called without sites,
\* and a filter of strategy 'no' yields the full site set for a source that
\* carries no index set
C16_SameConfiguration ==
    step.yielded =>
        /\ step.cached =>
               /\ srcIndices[step.src].has
               /\ step.sites.sids = srcIndices[step.src].idx
        /\ (Filtering(Yielding) /\ step.arg.kind = "None" /\ SameConfiguration)
               => step.sites.sids = OwnSubset
        /\ (~Filtering(Yielding) /\ ~srcIndices[step.src].has)
               => step.sites = CalledWith

C16_Witness ==
    /\ step.yielded /\ step.cached
    /\ step.arg.kind = "None"
    /\ SameConfiguration
    /\ ~step.again /\ step.before # {}
    /\ step.sites.sids # Sids

\* the no-op filter yielding a cached subset instead of the sites it was given
NoopYieldsCachedSubset ==
    /\ step.yielded /\ step.cached
    /\ Yielding = source_site_noop_filter
    /\ step.sites.sids # CalledWith.sids

====
